---------------------------- MODULE Spec2Model ----------------------------
(***************************************************************************)
(* Model of compress.cpp (image-compressor-server): the command line       *)
(* entry point `main`, the driver `compressImage` with its JPEG path and   *)
(* its custom PNG path, the quality-tier parameter computation and the     *)
(* palette reduction that chooses between PNG-8 and PNG-24.                *)
(*                                                                         *)
(* `float` is IEEE-754 binary32.  The tier parameters are decided by       *)
(* single-precision subtractions, divisions, multiplications and           *)
(* float-to-int truncations, so the arithmetic is modelled bit-exactly     *)
(* (round-to-nearest, ties-to-even) on mantissa/exponent pairs, with every *)
(* intermediate kept below 2^31.                                           *)
(***************************************************************************)
EXTENDS Integers, Naturals, Sequences, FiniteSets

(***************************************************************************)
(* Bounds of the model.                                                    *)
(***************************************************************************)
\* qualities tried are the floats nearest q/QDen, q \in 0..QDen (+ beyond)
QDen == 20
\* floats up to MaxUlp units in the last place around each threshold
MaxUlp == 2
\* the largest decoded image is MaxW x MaxH pixels
MaxW == 17
MaxH == 16

(***************************************************************************)
(* C++ passes arguments by value: an argument is evaluated once, before    *)
(* the call.  An operator Op(x_) written as                                *)
(*     CHOOSE value \in { ( body ) : x \in { x_ } } : TRUE                 *)
(* is body with x bound to the value of its argument x_.                   *)
(***************************************************************************)

(***************************************************************************)
(* binary32 arithmetic.  A finite float is [k |-> "fin", neg, m, e] and    *)
(* denotes (-1)^neg * m * 2^e, with m = 0 or 2^23 <= m < 2^24.             *)
(***************************************************************************)
MantBits == 24

\* the largest palette of a PNG-8 (lines 334, 337)
MaxColors == 256

Fin(neg, m, e) == [k |-> "fin", neg |-> neg, m |-> m, e |-> e]
FZero == Fin(FALSE, 0, 0)
FNaN == [k |-> "nan", neg |-> FALSE, m |-> 0, e |-> 0]
FInf(neg) == [k |-> "inf", neg |-> neg, m |-> 0, e |-> 0]

\* number of significant bits of n (0 for n = 0), n < 2^30
BitLen(n_) ==
    CHOOSE value \in
        { ( CHOOSE b \in 0..30 : n < 2^b /\ (b = 0 \/ n >= 2^(b - 1)) )
          : n \in { n_ } } : TRUE

\* the float nearest to (-1)^neg * (M + f) * 2^e, where 0 <= f < 1 and
\* sticky says f > 0; ties go to the even mantissa
RoundPack(neg_, M_, e_, sticky_) ==
    CHOOSE value \in
        { ( IF M = 0 THEN FZero
            ELSE LET nb == BitLen(M) IN
                 IF nb <= MantBits
                 THEN Fin(neg, M * 2^(MantBits - nb), e - (MantBits - nb))
                 ELSE LET sh   == nb - MantBits
                          kept == M \div 2^sh
                          rem  == M % 2^sh
                          half == 2^(sh - 1)
                          up   == \/ rem > half
                                  \/ rem = half /\ (sticky \/ kept % 2 = 1)
                          r    == IF up THEN kept + 1 ELSE kept
                      IN IF r = 2^MantBits
                         THEN Fin(neg, 2^(MantBits - 1), e + sh + 1)
                         ELSE Fin(neg, r, e + sh) )
          : neg \in { neg_ }, M \in { M_ }, e \in { e_ }, sticky \in { sticky_ } } : TRUE

\* long division: binary digits of p/d until the quotient has 26 bits
RECURSIVE DivBits(_, _, _, _)
DivBits(Q_, r_, d_, s_) ==
    CHOOSE value \in
        { ( IF Q >= 2^(MantBits + 1) THEN [Q |-> Q, r |-> r, s |-> s]
            ELSE DivBits(2 * Q + (IF 2 * r >= d THEN 1 ELSE 0),
                         IF 2 * r >= d THEN 2 * r - d ELSE 2 * r, d, s + 1) )
          : Q \in { Q_ }, r \in { r_ }, d \in { d_ }, s \in { s_ } } : TRUE

\* the float nearest to p/d (a decimal literal, or strtof of one)
FromRatio(p_, d_) ==
    CHOOSE value \in
        { ( IF p = 0 THEN FZero
            ELSE LET q == DivBits(p \div d, p % d, d, 0)
                 IN RoundPack(FALSE, q.Q, -q.s, q.r # 0) )
          : p \in { p_ }, d \in { d_ } } : TRUE

FromInt(n) == RoundPack(FALSE, n, 0, FALSE)

MagLt(a_, b_) ==
    CHOOSE value \in
        { ( IF b.m = 0 THEN FALSE
            ELSE IF a.m = 0 THEN TRUE
            ELSE a.e < b.e \/ (a.e = b.e /\ a.m < b.m) )
          : a \in { a_ }, b \in { b_ } } : TRUE

\* a < b, a <= b as C++ compares floats (false whenever a NaN is involved)
FLt(a_, b_) ==
    CHOOSE value \in
        { ( IF a.k = "nan" \/ b.k = "nan" THEN FALSE
            ELSE IF a.k = "inf" THEN a.neg /\ ~(b.k = "inf" /\ b.neg)
            ELSE IF b.k = "inf" THEN ~b.neg
            ELSE IF a.m = 0 /\ b.m = 0 THEN FALSE
            ELSE IF a.neg /\ ~b.neg THEN TRUE
            ELSE IF ~a.neg /\ b.neg THEN FALSE
            ELSE IF a.neg THEN MagLt(b, a) ELSE MagLt(a, b) )
          : a \in { a_ }, b \in { b_ } } : TRUE

FEq(a_, b_) ==
    CHOOSE value \in
        { ( /\ a.k # "nan" /\ b.k # "nan"
            /\ \/ a.k = "fin" /\ b.k = "fin" /\ a.m = 0 /\ b.m = 0
               \/ a = b )
          : a \in { a_ }, b \in { b_ } } : TRUE

FLe(a, b) == FLt(a, b) \/ FEq(a, b)
FGe(a, b) == FLe(b, a)
FGt(a, b) == FLt(b, a)
IsFinite(a) == a.k = "fin"

\* |big| - |small| for finite magnitudes with |big| >= |small|, three guard bits
MagSub(neg_, big_, small_) ==
    CHOOSE value \in
        { ( IF small.m = 0 THEN Fin(neg /\ big.m # 0, big.m, big.e)
            ELSE LET d   == big.e - small.e
                     Mb  == big.m * 8
                     Ms  == small.m * 8
                     far == d > 27
                     sh  == IF far THEN 0 ELSE Ms \div 2^d
                     st  == IF far THEN TRUE ELSE Ms % 2^d # 0
                     D   == IF st THEN Mb - sh - 1 ELSE Mb - sh
                 IN RoundPack(neg, D, big.e - 3, st) )
          : neg \in { neg_ }, big \in { big_ }, small \in { small_ } } : TRUE

\* |a| + |b| for finite magnitudes
MagAdd(neg_, a_, b_) ==
    CHOOSE value \in
        { ( LET big   == IF MagLt(a, b) THEN b ELSE a
                small == IF MagLt(a, b) THEN a ELSE b
            IN IF small.m = 0 THEN Fin(neg /\ big.m # 0, big.m, big.e)
               ELSE LET d   == big.e - small.e
                        Mb  == big.m * 8
                        Ms  == small.m * 8
                        far == d > 27
                        sh  == IF far THEN 0 ELSE Ms \div 2^d
                        st  == IF far THEN TRUE ELSE Ms % 2^d # 0
                    IN RoundPack(neg, Mb + sh, big.e - 3, st) )
          : neg \in { neg_ }, a \in { a_ }, b \in { b_ } } : TRUE

\* a + b on finite floats
FAdd(a_, b_) ==
    CHOOSE value \in
        { ( IF a.neg = b.neg THEN MagAdd(a.neg, a, b)
            ELSE IF MagLt(a, b) THEN MagSub(b.neg, b, a)
            ELSE IF MagLt(b, a) THEN MagSub(a.neg, a, b)
            ELSE FZero )
          : a \in { a_ }, b \in { b_ } } : TRUE

\* a - b on finite floats
FSub(a_, b_) ==
    CHOOSE value \in
        { ( FAdd(a, Fin(~b.neg, b.m, b.e)) )
          : a \in { a_ }, b \in { b_ } } : TRUE

\* a / b on finite floats, b # 0
FDiv(a_, b_) ==
    CHOOSE value \in
        { ( IF a.m = 0 THEN FZero
            ELSE LET q == DivBits(a.m \div b.m, a.m % b.m, b.m, 0)
                 IN RoundPack(a.neg # b.neg, q.Q, a.e - b.e - q.s, q.r # 0) )
          : a \in { a_ }, b \in { b_ } } : TRUE

\* a * b on finite floats; the 48-bit product is built from 12-bit halves
FMul(a_, b_) ==
    CHOOSE value \in
        { ( IF a.m = 0 \/ b.m = 0 THEN FZero
            ELSE LET a1  == a.m \div 4096
                     a0  == a.m % 4096
                     b1  == b.m \div 4096
                     b0  == b.m % 4096
                     mid == a1 * b0 + a0 * b1
                     lo  == a0 * b0 + (mid % 4096) * 4096
                     hi  == a1 * b1 + mid \div 4096 + lo \div 2^24
                     lo2 == lo % 2^24
                 IN RoundPack(a.neg # b.neg, hi * 4 + lo2 \div 2^22,
                              a.e + b.e + 22, lo2 % 2^22 # 0) )
          : a \in { a_ }, b \in { b_ } } : TRUE

\* static_cast<int>(x): truncation toward zero
FTrunc(x_) ==
    CHOOSE value \in
        { ( LET mag == IF x.e >= 0 THEN x.m * 2^(x.e)
                       ELSE IF -x.e >= MantBits THEN 0
                       ELSE x.m \div 2^(-x.e)
            IN IF x.neg THEN -mag ELSE mag )
          : x \in { x_ } } : TRUE

\* std::clamp(x, lo, hi)
FClamp(x_, lo_, hi_) ==
    CHOOSE value \in
        { ( IF FLt(x, lo) THEN lo ELSE IF FLt(hi, x) THEN hi ELSE x )
          : x \in { x_ }, lo \in { lo_ }, hi \in { hi_ } } : TRUE

Max(a_, b_) ==
    CHOOSE value \in
        { ( IF a >= b THEN a ELSE b )
          : a \in { a_ }, b \in { b_ } } : TRUE

Clamp(v_, lo_, hi_) ==
    CHOOSE value \in
        { ( IF v < lo THEN lo ELSE IF hi < v THEN hi ELSE v )
          : v \in { v_ }, lo \in { lo_ }, hi \in { hi_ } } : TRUE

(***************************************************************************)
(* The float literals of compress.cpp.                                     *)
(***************************************************************************)
FOne == FromInt(1)
F0_7 == FromRatio(7, 10)
F0_3 == FromRatio(3, 10)
F0_6 == FromRatio(6, 10)
F0_4 == FromRatio(4, 10)
F0_5 == FromRatio(1, 2)
F0_1 == FromRatio(1, 10)
FEps == FromRatio(1, 1000000)

\* round to nearest (halves away from zero) of a non-negative float
FRoundInt(x_) ==
    CHOOSE value \in
        { ( IF x.e >= 0 THEN x.m * 2^(x.e)
            ELSE IF -x.e > MantBits THEN 0
            ELSE (x.m + 2^(-x.e - 1)) \div 2^(-x.e) )
          : x \in { x_ } } : TRUE

\* static_cast<int>(float): the conversion used for every level count
StaticCastInt(x) == FTrunc(x)

\* the range test written as in main, without the negation that catches NaN
QualityRejectedNoNaN(c) == FLt(c, FZero) \/ FGt(c, FOne)

\* compressImage's argument check (line 199): TRUE when the call is rejected
QualityRejected(c) == ~(FGe(c, FZero) /\ FLe(c, FOne)) \/ ~IsFinite(c)

\* const float inv = 1.0f - quality
Inv(quality) == FSub(FOne, quality)

\* the tier test on the old compression scale, not flipped to quality
UseTier1Unflipped(quality) == FLe(quality, FAdd(F0_3, FEps))

\* const bool useTier1 = (quality >= 0.7f - 1e-6f)
UseTier1(quality) == FGe(quality, FSub(F0_7, FEps))

\* float t = inv / 0.3f                          (tier 1)
Tier1T(quality) == FDiv(Inv(quality), F0_3)

\* float t = clamp((inv - 0.3f) / 0.7f, 0, 1)    (tier 2)
Tier2T(quality) == FClamp(FDiv(FSub(Inv(quality), F0_3), F0_7), FZero, FOne)

Tier1Params(quality) ==
    LET t == Tier1T(quality) IN
    [ useTier1        |-> TRUE,
      subsampleFactor |-> 2,
      lumaLevels      |-> 256 - StaticCastInt(FMul(t, FromInt(64))),
      chromaLevels    |-> 256 - StaticCastInt(FMul(t, FromInt(192))),
      blurSigma       |-> FMul(t, F0_7),
      useDithering    |-> TRUE ]

Tier2Params(quality) ==
    LET t == Tier2T(quality) IN
    [ useTier1        |-> FALSE,
      lumaLevels      |-> Max(4, 192 - StaticCastInt(FMul(t, FromInt(188)))),
      chromaLevels    |-> Max(2, 64 - StaticCastInt(FMul(t, FromInt(62)))),
      subsampleFactor |-> 2 + StaticCastInt(FMul(t, FromInt(6))),
      blurSigma       |-> FAdd(F0_7, FMul(t, F0_6)),
      useDithering    |-> FLt(t, F0_5) ]

\* step 2 of the PNG path: the tier parameters of a quality
TierParams(quality) ==
    IF UseTier1(quality) THEN Tier1Params(quality) ELSE Tier2Params(quality)

\* const int rgbMultiple = (quality > 0.4f) ? 2 : 4
RgbMultiple(quality) == IF FGt(quality, F0_4) THEN 2 ELSE 4

\* the denoise condition with a strict comparison
JpegDenoiseStrict(quality) == FLt(quality, F0_6)

\* the JPEG path's denoise condition: quality <= 0.6f
JpegDenoise(quality) == FLe(quality, F0_6)

\* int jpegQuality = clamp(50 + static_cast<int>(quality * 45.0f), 1, 100)
JpegQuality(quality) ==
    Clamp(50 + StaticCastInt(FMul(quality, FromInt(45))), 1, 100)

(***************************************************************************)
(* Output path handling (lines 206-217).  A path is a sequence of one-     *)
(* character strings.                                                      *)
(***************************************************************************)
UpperCase == << "A", "B", "C", "D", "E", "F", "G", "H", "I", "J", "K", "L", "M",
                "N", "O", "P", "Q", "R", "S", "T", "U", "V", "W", "X", "Y", "Z" >>
LowerCase == << "a", "b", "c", "d", "e", "f", "g", "h", "i", "j", "k", "l", "m",
                "n", "o", "p", "q", "r", "s", "t", "u", "v", "w", "x", "y", "z" >>

\* std::tolower on one character
ToLower(c) ==
    IF \E i \in 1..Len(UpperCase) : UpperCase[i] = c
    THEN LowerCase[CHOOSE i \in 1..Len(UpperCase) : UpperCase[i] = c]
    ELSE c

\* outPath.find_last_of('.'): the 1-based position of the last dot, 0 for npos
FindLastDot(path) ==
    IF \E i \in 1..Len(path) : path[i] = "."
    THEN CHOOSE i \in 1..Len(path) :
             path[i] = "." /\ \A j \in (i + 1)..Len(path) : path[j] # "."
    ELSE 0

\* outPath.substr(dotPos + 1), lower-cased by std::transform
LowerExt(path) ==
    LET tail == SubSeq(path, FindLastDot(path) + 1, Len(path))
    IN [i \in 1..Len(tail) |-> ToLower(tail[i])]

IsJPEG(ext) == ext = << "j", "p", "g" >> \/ ext = << "j", "p", "e", "g" >>
IsPNG(ext) == ext = << "p", "n", "g" >>

(***************************************************************************)
(* Palette reduction (lines 330-352).  std::set<uint32_t> is a sorted      *)
(* sequence without duplicates.                                            *)
(***************************************************************************)

\* packRGB (line 192)
PackRGB(r, g, b) == r * 65536 + g * 256 + b

\* number of elements of the sorted sequence s below c
RECURSIVE LowerBound(_, _, _, _)
LowerBound(s_, c_, lo_, hi_) ==
    CHOOSE value \in
        { ( IF lo >= hi THEN lo
            ELSE LET mid == (lo + hi) \div 2
                 IN IF s[mid + 1] < c THEN LowerBound(s, c, mid + 1, hi)
                    ELSE LowerBound(s, c, lo, mid) )
          : s \in { s_ }, c \in { c_ }, lo \in { lo_ }, hi \in { hi_ } } : TRUE

\* uniq.insert(c)
SetInsert(s_, c_) ==
    CHOOSE value \in
        { ( IF k < Len(s) /\ s[k + 1] = c THEN s
            ELSE SubSeq(s, 1, k) \o << c >> \o SubSeq(s, k + 1, Len(s)) )
          : s \in { s_ }, c \in { c_ }, k \in { LowerBound(s_, c_, 0, Len(s_)) } } : TRUE

\* the break taken one color early
ScanAbortEarly(uniq) == Len(uniq) >= MaxColors

\* if (uniq.size() > 256) break;
ScanAbort(uniq) == Len(uniq) > MaxColors

\* one iteration of the loop of lines 332-335; st.stop is set by the break
ScanPixel(c_, st_) ==
    CHOOSE value \in
        { ( [uniq |-> u, stop |-> ScanAbort(u)] )
          : u \in { SetInsert(st_.uniq, c_) } } : TRUE

\* the iterations for pixels lo..hi in order, skipped once the loop has broken
\* (the loop over lo..hi is unfolded as the loop over each half in turn)
RECURSIVE ScanRange(_, _, _, _)
ScanRange(data_, lo_, hi_, st_) ==
    CHOOSE value \in
        { ( IF st.stop \/ lo > hi THEN st
            ELSE IF lo = hi THEN ScanPixel(data[lo], st)
            ELSE LET mid == (lo + hi) \div 2
                 IN ScanRange(data, mid + 1, hi, ScanRange(data, lo, mid, st)) )
          : data \in { data_ }, lo \in { lo_ }, hi \in { hi_ }, st \in { st_ } } : TRUE

\* lines 331-335: the set the scan leaves in uniq
ScanUniq(data) ==
    ScanRange(data, 1, Len(data), [uniq |-> << >>, stop |-> FALSE]).uniq

\* if (!uniq.empty() && uniq.size() <= 256)
UseIndexed(uniq) == Len(uniq) # 0 /\ Len(uniq) <= MaxColors

\* the four bytes pushed per color, in the set's iteration order
BuildPalette(uniq) ==
    [j \in 1..(4 * Len(uniq)) |->
        LET c == uniq[(j - 1) \div 4 + 1]
        IN CASE (j - 1) % 4 = 0 -> (c \div 65536) % 256
             [] (j - 1) % 4 = 1 -> (c \div 256) % 256
             [] (j - 1) % 4 = 2 -> c % 256
             [] OTHER           -> 255]

\* toIdx[c] = idx++ with uint8_t idx; reading a missing key yields 0
ToIdx(uniq_, c_) ==
    CHOOSE value \in
        { ( IF k < Len(uniq) /\ uniq[k + 1] = c THEN k % 256 ELSE 0 )
          : uniq \in { uniq_ }, c \in { c_ }, k \in { LowerBound(uniq_, c_, 0, Len(uniq_)) } } : TRUE

BuildIndices(uniq, data) == [i \in 1..Len(data) |-> ToIdx(uniq, data[i])]

(***************************************************************************)
(* Inputs.                                                                 *)
(***************************************************************************)
\* the next and the previous float of a positive finite float
FUp(x) ==
    IF x.m + 1 = 2^MantBits THEN Fin(x.neg, 2^(MantBits - 1), x.e + 1)
    ELSE Fin(x.neg, x.m + 1, x.e)
FDown(x) ==
    IF x.m = 2^(MantBits - 1) THEN Fin(x.neg, 2^MantBits - 1, x.e - 1)
    ELSE Fin(x.neg, x.m - 1, x.e)

RECURSIVE UlpStep(_, _)
UlpStep(x_, k_) ==
    CHOOSE value \in
        { ( IF k = 0 THEN x
            ELSE IF k > 0 THEN UlpStep(FUp(x), k - 1)
            ELSE UlpStep(FDown(x), k + 1) )
          : x \in { x_ }, k \in { k_ } } : TRUE

\* argv[3] that strtof cannot parse (endp == argv[3]); strtof then returns 0
NoParse == [k |-> "noparse", neg |-> FALSE, m |-> 0, e |-> 0]

\* the floats nearest q/QDen, including one above 1
GridQ == { FromRatio(q, QDen) : q \in 0..(QDen + 1) }
\* the floats next to the thresholds the code compares quality with
NearQ == { UlpStep(c, k) :
             c \in { F0_7, FSub(F0_7, FEps), F0_6, F0_4, FOne },
             k \in (0 - MaxUlp)..MaxUlp }
BadQ == { FNaN, FInf(FALSE), FInf(TRUE),
          Fin(TRUE, 2^(MantBits - 1), 0 - MantBits), Fin(FALSE, 2^(MantBits - 1), 0 - (MantBits - 2)) }
Qualities == GridQ \cup NearQ \cup BadQ

OutputPaths ==
    { << "o", "u", "t" >>,
      << "o", ".", "p", "n", "g" >>,
      << "a", ".", "b", ".", "P", "n", "G" >>,
      << "o", ".", "j", "p", "g" >>,
      << "o", ".", "J", "P", "E", "G" >>,
      << "o", ".", "b", "m", "p" >>,
      << "o", "." >>,
      << "o", ".", "p", "n", "g", ".", "g", "z" >>,
      << "d", ".", "p", "n", "g", "/", "o" >> }

\* the sizes the decoder may report; stbi_load never returns an empty image
Dims == { << 1, 1 >>, << 4, 4 >>, << MaxW, MaxH >> }

\* the k-th color of a finished buffer whose channels are multiples of mult
\* (or 255, the clamp of 256)
Color(k, mult) ==
    PackRGB((k % 64) * mult, ((k \div 64) % 64) * mult,
            IF k % 3 = 0 THEN 255 ELSE 0)

\* numbers of distinct colors a finished buffer is tried with
ColorCounts == { 1, 2, MaxColors, MaxColors + 1 }

\* a finished RGB buffer of n pixels cycling through nc colors
Buffer(n, nc, mult, rev) ==
    [i \in 1..n |->
        Color(IF rev THEN nc - 1 - ((i - 1) % nc) ELSE (i - 1) % nc, mult)]

(***************************************************************************)
(* State.                                                                  *)
(***************************************************************************)
VARIABLES
    pc,        \* position in main / compressImage
    entry,     \* "main": run from the command line; "direct": compressImage called
    argc,      \* main's argc
    quality,   \* strtof(argv[3]) / the compression argument
    output,    \* the output path
    ext,       \* the lower-cased extension
    w, h,      \* the decoded size
    params,    \* the tier parameters
    data,      \* the finished RGB buffer (packed colors), after step 6
    uniq,      \* std::set<uint32_t> uniq
    palette,   \* std::vector<uint8_t> palette
    indices,   \* std::vector<uint8_t> indices
    ok,        \* bool ok
    ret,       \* compressImage's return value: "none", "true", "false"
    exitCode,  \* main's exit code, -1 while running
    outFile,   \* "absent" or "written": the file at the output path
    log        \* the calls made so far, in order

vars == << pc, entry, argc, quality, output, ext, w, h, params, data, uniq,
           palette, indices, ok, ret, exitCode, outFile, log >>

Ev(op, n, f, r) == [op |-> op, n |-> n, f |-> f, r |-> r]

NoParams ==
    [ useTier1 |-> FALSE, lumaLevels |-> 0, chromaLevels |-> 0,
      subsampleFactor |-> 0, blurSigma |-> FZero, useDithering |-> FALSE ]

Init ==
    /\ \/ /\ entry = "direct" /\ argc = 0 /\ pc = "compressImage"
          /\ quality \in Qualities /\ output \in OutputPaths
       \/ /\ entry = "main" /\ argc = 4 /\ pc = "main"
          /\ quality \in Qualities \cup { NoParse } /\ output \in OutputPaths
       \/ /\ entry = "main" /\ argc \in { 1, 3, 5 } /\ pc = "main"
          /\ quality = NoParse /\ output = << >>
    /\ ext = << >>
    /\ w = 0 /\ h = 0
    /\ params = NoParams
    /\ data = << >> /\ uniq = << >> /\ palette = << >> /\ indices = << >>
    /\ ok = FALSE
    /\ ret = "none"
    /\ exitCode = -1
    /\ outFile = "absent"
    /\ log = << >>

(***************************************************************************)
(* main (lines 376-397).                                                   *)
(***************************************************************************)
\* endp == argv[3] || !isfinite || compression < 0 || compression > 1
MainRejects(c) ==
    \/ c.k = "noparse"
    \/ ~IsFinite(c)
    \/ FLt(c, FZero)
    \/ FGt(c, FOne)

Main ==
    /\ pc = "main"
    /\ IF argc # 4 \/ MainRejects(quality)
       THEN /\ exitCode' = 1
            /\ pc' = "exit"
       ELSE /\ exitCode' = exitCode
            /\ pc' = "compressImage"
    /\ UNCHANGED << entry, argc, quality, output, ext, w, h, params, data, uniq,
                    palette, indices, ok, ret, outFile, log >>

\* return compressImage(...) ? 0 : 1
MainReturn ==
    /\ pc = "returned"
    /\ entry = "main"
    /\ exitCode' = IF ret = "true" THEN 0 ELSE 1
    /\ pc' = "exit"
    /\ UNCHANGED << entry, argc, quality, output, ext, w, h, params, data, uniq,
                    palette, indices, ok, ret, outFile, log >>

(***************************************************************************)
(* compressImage (lines 198-374).                                          *)
(***************************************************************************)
\* lines 199-202
CheckQuality ==
    /\ pc = "compressImage"
    /\ IF QualityRejected(quality)
       THEN ret' = "false" /\ pc' = "returned"
       ELSE ret' = ret /\ pc' = "detectExt"
    /\ UNCHANGED << entry, argc, quality, output, ext, w, h, params, data, uniq,
                    palette, indices, ok, exitCode, outFile, log >>

\* lines 206-217
DetectExt ==
    /\ pc = "detectExt"
    /\ IF FindLastDot(output) = 0
       THEN ret' = "false" /\ pc' = "returned" /\ ext' = ext
       ELSE ret' = ret /\ pc' = "load" /\ ext' = LowerExt(output)
    /\ UNCHANGED << entry, argc, quality, output, w, h, params, data, uniq,
                    palette, indices, ok, exitCode, outFile, log >>

\* the branch taken after a successful load (lines 230, 251, 366)
Branch(e) ==
    IF IsJPEG(e) THEN "jpegDenoise" ELSE IF IsPNG(e) THEN "fromRGB" ELSE "unsupported"

\* lines 219-228: the decoder fails, or returns a w x h image
Load ==
    /\ pc = "load"
    /\ \/ /\ log' = Append(log, Ev("stbi_load", 0, FZero, FALSE))
          /\ ret' = "false" /\ pc' = "returned"
          /\ UNCHANGED << w, h >>
       \/ \E d \in Dims :
             /\ w' = d[1] /\ h' = d[2]
             /\ log' = Append(log, Ev("stbi_load", d[1] * d[2], FZero, TRUE))
             /\ ret' = ret
             /\ pc' = Branch(ext)
    /\ ok' = FALSE
    /\ UNCHANGED << entry, argc, quality, output, ext, params, data, uniq,
                    palette, indices, exitCode, outFile >>

\* lines 233-243: the JPEG path's optional denoise
JpegDenoiseStep ==
    /\ pc = "jpegDenoise"
    /\ log' = IF JpegDenoise(quality)
              THEN log \o << Ev("fromRGB", w * h, FZero, TRUE),
                             Ev("chromaBlur", w * h, F0_4, TRUE),
                             Ev("toRGB", w * h, FZero, TRUE) >>
              ELSE log
    /\ pc' = "jpegWrite"
    /\ UNCHANGED << entry, argc, quality, output, ext, w, h, params, data, uniq,
                    palette, indices, ok, ret, exitCode, outFile >>

\* an encoder that reports success has written the file
Written(file, success) == IF success THEN "written" ELSE file

\* lines 245-249: stbi_write_jpg succeeds or fails
JpegWrite ==
    /\ pc = "jpegWrite"
    /\ \E success \in BOOLEAN :
          /\ log' = Append(log, Ev("stbi_write_jpg", JpegQuality(quality), FZero, success))
          /\ ok' = success
          /\ outFile' = Written(outFile, success)
    /\ pc' = "finish"
    /\ UNCHANGED << entry, argc, quality, output, ext, w, h, params, data, uniq,
                    palette, indices, ret, exitCode >>

\* step 1, lines 254-257
PngFromRGB ==
    /\ pc = "fromRGB"
    /\ log' = Append(log, Ev("fromRGB", w * h, FZero, TRUE))
    /\ pc' = "params"
    /\ UNCHANGED << entry, argc, quality, output, ext, w, h, params, data, uniq,
                    palette, indices, ok, ret, exitCode, outFile >>

\* step 2, lines 259-291
PngParams ==
    /\ pc = "params"
    /\ params' = TierParams(quality)
    /\ log' = Append(log, Ev("tierParams", 0, FZero, TRUE))
    /\ pc' = "blur"
    /\ UNCHANGED << entry, argc, quality, output, ext, w, h, data, uniq,
                    palette, indices, ok, ret, exitCode, outFile >>

\* chromaBlur returns at once when sigma < 0.1f (line 86)
BlurActs(sigma) == ~FLt(sigma, F0_1)

\* step 3, line 294: if (blurSigma > 0.0f) chromaBlur(...)
PngBlur ==
    /\ pc = "blur"
    /\ log' = IF FGt(params.blurSigma, FZero)
              THEN Append(log, Ev("chromaBlur", w * h, params.blurSigma,
                                  BlurActs(params.blurSigma)))
              ELSE log
    /\ pc' = "subsample"
    /\ UNCHANGED << entry, argc, quality, output, ext, w, h, params, data, uniq,
                    palette, indices, ok, ret, exitCode, outFile >>

\* step 3, line 295; chromaSubsample returns at once when factor <= 1
PngSubsample ==
    /\ pc = "subsample"
    /\ log' = Append(log, Ev("chromaSubsample", params.subsampleFactor, FZero,
                             params.subsampleFactor > 1))
    /\ pc' = "quantize"
    /\ UNCHANGED << entry, argc, quality, output, ext, w, h, params, data, uniq,
                    palette, indices, ok, ret, exitCode, outFile >>

\* step 4, lines 297-312: quantize, with the luma dithered first when enabled
PngQuantize ==
    /\ pc = "quantize"
    /\ log' = IF params.useDithering
              THEN log \o << Ev("orderedDither", params.lumaLevels, FZero, TRUE),
                             Ev("quantize", params.lumaLevels, FZero, TRUE) >>
              ELSE Append(log, Ev("quantize", params.lumaLevels, FZero, TRUE))
    /\ pc' = "evenRound"
    /\ UNCHANGED << entry, argc, quality, output, ext, w, h, params, data, uniq,
                    palette, indices, ok, ret, exitCode, outFile >>

\* even rounding applied whether or not the luma was dithered
PngEvenRoundAlways ==
    /\ pc = "evenRound"
    /\ log' = Append(log, Ev("evenRoundY", w * h, FZero, TRUE))
    /\ pc' = "toRGBRounded"
    /\ UNCHANGED << entry, argc, quality, output, ext, w, h, params, data, uniq,
                    palette, indices, ok, ret, exitCode, outFile >>

\* step 5, lines 314-320
PngEvenRound ==
    /\ pc = "evenRound"
    /\ log' = IF params.useDithering
              THEN Append(log, Ev("evenRoundY", w * h, FZero, TRUE))
              ELSE log
    /\ pc' = "toRGBRounded"
    /\ UNCHANGED << entry, argc, quality, output, ext, w, h, params, data, uniq,
                    palette, indices, ok, ret, exitCode, outFile >>

\* step 6, lines 322-328: the finished buffer holds w*h pixels whose channels
\* are multiples of rgbMultiple clamped to 0..255
PngToRGBRounded ==
    /\ pc = "toRGBRounded"
    /\ \E nc \in ColorCounts, rev \in BOOLEAN :
          data' = Buffer(w * h, nc, RgbMultiple(quality), rev)
    /\ log' = Append(log, Ev("toRGBRounded", RgbMultiple(quality), FZero, TRUE))
    /\ pc' = "scan"
    /\ UNCHANGED << entry, argc, quality, output, ext, w, h, params, uniq,
                    palette, indices, ok, ret, exitCode, outFile >>

\* step 7, lines 331-335
PngScan ==
    /\ pc = "scan"
    /\ uniq' = ScanUniq(data)
    /\ pc' = "encodePng"
    /\ UNCHANGED << entry, argc, quality, output, ext, w, h, params, data,
                    palette, indices, ok, ret, exitCode, outFile, log >>

\* the PNG-24 write no longer guarded by if (!ok)
PngIndexedAlwaysFallsBack ==
    /\ pc = "encodePng"
    /\ UseIndexed(uniq)
    /\ palette' = BuildPalette(uniq)
    /\ indices' = BuildIndices(uniq, data)
    /\ \E success \in BOOLEAN :
          /\ log' = Append(log, Ev("write_png8_indexed", Len(uniq), FZero, success))
          /\ ok' = success
          /\ outFile' = Written(outFile, success)
          /\ pc' = "png8Failed"
    /\ UNCHANGED << entry, argc, quality, output, ext, w, h, params, data, uniq,
                    ret, exitCode >>

\* lines 337-354: build the palette and the indices, call write_png8_indexed
PngIndexed ==
    /\ pc = "encodePng"
    /\ UseIndexed(uniq)
    /\ palette' = BuildPalette(uniq)
    /\ indices' = BuildIndices(uniq, data)
    /\ \E success \in BOOLEAN :
          /\ log' = Append(log, Ev("write_png8_indexed", Len(uniq), FZero, success))
          /\ ok' = success
          /\ outFile' = Written(outFile, success)
          /\ pc' = IF success THEN "finish" ELSE "png8Failed"
    /\ UNCHANGED << entry, argc, quality, output, ext, w, h, params, data, uniq,
                    ret, exitCode >>

\* a failed PNG-8 write that is not retried as PNG-24
PngFallbackDropped ==
    /\ pc = "png8Failed"
    /\ pc' = "finish"
    /\ UNCHANGED << entry, argc, quality, output, ext, w, h, params, data, uniq,
                    palette, indices, ok, ret, exitCode, outFile, log >>

\* lines 355-359: the PNG-24 fallback
PngFallback ==
    /\ pc = "png8Failed"
    /\ \E success \in BOOLEAN :
          /\ log' = Append(log, Ev("stbi_write_png", w * h, FZero, success))
          /\ ok' = success
          /\ outFile' = Written(outFile, success)
    /\ pc' = "finish"
    /\ UNCHANGED << entry, argc, quality, output, ext, w, h, params, data, uniq,
                    palette, indices, ret, exitCode >>

\* lines 360-364: more than 256 colors (or none): PNG-24
PngTruecolor ==
    /\ pc = "encodePng"
    /\ ~UseIndexed(uniq)
    /\ \E success \in BOOLEAN :
          /\ log' = Append(log, Ev("stbi_write_png", w * h, FZero, success))
          /\ ok' = success
          /\ outFile' = Written(outFile, success)
    /\ pc' = "finish"
    /\ UNCHANGED << entry, argc, quality, output, ext, w, h, params, data, uniq,
                    palette, indices, ret, exitCode >>

\* lines 366-368: neither JPEG nor PNG; ok stays false
Unsupported ==
    /\ pc = "unsupported"
    /\ pc' = "finish"
    /\ UNCHANGED << entry, argc, quality, output, ext, w, h, params, data, uniq,
                    palette, indices, ok, ret, exitCode, outFile, log >>

\* lines 370-373
Finish ==
    /\ pc = "finish"
    /\ log' = Append(log, Ev("stbi_image_free", 0, FZero, TRUE))
    /\ ret' = IF ok THEN "true" ELSE "false"
    /\ pc' = "returned"
    /\ UNCHANGED << entry, argc, quality, output, ext, w, h, params, data, uniq,
                    palette, indices, ok, exitCode, outFile >>

Next ==
    \/ Main
    \/ MainReturn
    \/ CheckQuality
    \/ DetectExt
    \/ Load
    \/ JpegDenoiseStep
    \/ JpegWrite
    \/ PngFromRGB
    \/ PngParams
    \/ PngBlur
    \/ PngSubsample
    \/ PngQuantize
    \/ PngEvenRound
    \/ PngToRGBRounded
    \/ PngScan
    \/ PngIndexed
    \/ PngFallback
    \/ PngTruecolor
    \/ Unsupported
    \/ Finish

Spec == Init /\ [][Next]_vars

\* the run is over: main has exited, or the direct call has returned
Terminated == pc = "exit" \/ (pc = "returned" /\ entry = "direct")

(***************************************************************************)
(* Vocabulary of the properties.                                           *)
(***************************************************************************)
EncoderOps == { "stbi_write_jpg", "write_png8_indexed", "stbi_write_png" }
PixelOps == { "fromRGB", "chromaBlur", "toRGB", "chromaSubsample",
              "orderedDither", "quantize", "evenRoundY", "toRGBRounded" }

Called(op) == \E i \in 1..Len(log) : log[i].op = op
CalledAny(ops) == \E i \in 1..Len(log) : log[i].op \in ops
Calls(ops) == { i \in 1..Len(log) : log[i].op \in ops }
Succeeded(ops) == \E i \in 1..Len(log) : log[i].op \in ops /\ log[i].r

\* the run has ended in failure / in success
RunFailed == Terminated /\ (ret = "false" \/ exitCode = 1)
RunSucceeded == Terminated /\ ret = "true" /\ exitCode # 1

\* the output name has no extension, or one that is not png, jpg or jpeg
UnsupportedName(path) ==
    \/ FindLastDot(path) = 0
    \/ ~IsJPEG(LowerExt(path)) /\ ~IsPNG(LowerExt(path))
PngName(path) == FindLastDot(path) # 0 /\ IsPNG(LowerExt(path))
JpegName(path) == FindLastDot(path) # 0 /\ IsJPEG(LowerExt(path))

C2_Outcome ==
    (PngName(output) /\ Terminated /\ CalledAny(EncoderOps)) =>
        /\ \A i \in 1..Len(log) :
              (log[i].op = "write_png8_indexed" /\ ~log[i].r) =>
                  (i < Len(log) /\ log[i + 1].op = "stbi_write_png")
        /\ RunSucceeded <=> Succeeded({ "write_png8_indexed", "stbi_write_png" })
        /\ RunFailed <=> ~Succeeded({ "write_png8_indexed", "stbi_write_png" })
        /\ entry = "main" =>
              exitCode = IF Succeeded({ "write_png8_indexed", "stbi_write_png" })
                         THEN 0 ELSE 1

C2_FallbackStep ==
    (Len(log) > 0 /\ log[Len(log)].op = "write_png8_indexed" /\ ~log[Len(log)].r) =>
        /\ data' = data
        /\ Len(log') = Len(log) + 1
        /\ SubSeq(log', 1, Len(log)) = log
        /\ log'[Len(log')].op = "stbi_write_png"

C2_Fallback == [](C2_Outcome) /\ [][C2_FallbackStep]_vars

C2_Witness ==
    /\ Terminated /\ entry = "main" /\ exitCode = 0
    /\ \E i \in 1..Len(log) : log[i].op = "write_png8_indexed" /\ ~log[i].r
    /\ \E i \in 1..Len(log) : log[i].op = "stbi_write_png" /\ log[i].r

(***************************************************************************)
(* C3 as stated: the encoder collaborator is invoked once per run, and a   *)
(* run that ends in failure leaves no output file.                         *)
(***************************************************************************)
C3_EncoderInvokedOnce ==
    /\ Cardinality(Calls(EncoderOps)) <= 1
    /\ RunFailed => outFile = "absent"

(***************************************************************************)
(* C3 as amended: encoder calls come at the end of the run, after every    *)
(* pixel stage; there is one, or two when a failed indexed call is         *)
(* followed by the truecolor fallback; the output file exists exactly when *)
(* an encoder call reported success, so a run that ends in failure leaves  *)
(* none.                                                                   *)
(***************************************************************************)
C3_NoFileOnFailure ==
    /\ \A i, j \in 1..Len(log) :
          (log[i].op \in EncoderOps /\ log[j].op \in PixelOps) => j < i
    /\ Cardinality(Calls(EncoderOps)) <= 2
    /\ \A i, j \in Calls(EncoderOps) :
          i < j => /\ log[i].op = "write_png8_indexed" /\ ~log[i].r
                   /\ log[j].op = "stbi_write_png" /\ j = i + 1
    /\ outFile = "written" <=> Succeeded(EncoderOps)
    /\ RunFailed => (outFile = "absent" /\ ~Succeeded(EncoderOps))
    /\ RunSucceeded => outFile = "written"

C3_Witness ==
    /\ RunFailed
    /\ Cardinality(Calls(EncoderOps)) = 2
    /\ outFile = "absent"

(***************************************************************************)
(* C4 as stated: on the PNG path a separate chroma blur with sigma 0.4     *)
(* runs before the tier parameters are computed exactly when               *)
(* quality <= 0.6.                                                         *)
(***************************************************************************)
FixedBlurBeforeParams ==
    \E i, j \in 1..Len(log) :
        /\ i < j
        /\ log[i].op = "chromaBlur" /\ log[i].f = F0_4
        /\ log[j].op = "tierParams"

C4_PngPreFilter ==
    (PngName(output) /\ Called("tierParams")) =>
        (FixedBlurBeforeParams <=> FLe(quality, F0_6))

(***************************************************************************)
(* C4 as amended: the PNG path never runs a separate sigma-0.4 pass: its   *)
(* only chroma blur is the tier's own, with the tier's blurSigma, after    *)
(* the parameters are computed.  The fixed sigma-0.4 blur belongs to the   *)
(* JPEG path, where it runs before the encoder exactly when                *)
(* quality <= 0.6.                                                         *)
(***************************************************************************)
C4_FixedBlurOnJpegOnly ==
    /\ PngName(output) =>
          /\ Cardinality(Calls({ "chromaBlur" })) <= 1
          /\ \A i \in Calls({ "chromaBlur" }) :
                /\ log[i].f = params.blurSigma
                /\ \E j \in 1..(i - 1) : log[j].op = "tierParams"
    /\ (JpegName(output) /\ Called("stbi_write_jpg")) =>
          /\ Cardinality(Calls({ "chromaBlur" })) <= 1
          /\ \A i \in Calls({ "chromaBlur" }) :
                /\ log[i].f = F0_4
                /\ \E j \in (i + 1)..Len(log) : log[j].op = "stbi_write_jpg"
          /\ Called("chromaBlur") <=> FLe(quality, F0_6)

C4_Witness ==
    /\ PngName(output) /\ pc = "finish"
    /\ FLe(quality, F0_6)
    /\ Cardinality(Calls({ "chromaBlur" })) = 1
    /\ ~FixedBlurBeforeParams

(***************************************************************************)
(* C5 as stated: the tier parameters equal the planner formulas with       *)
(* round-to-nearest: tier 1 (quality >= 0.7) has t = inv/0.3,              *)
(* lumaLevels = 256 - round(t*64), chromaLevels = 256 - round(t*192),      *)
(* subsampleFactor = 2 and dithering; tier 2 has                           *)
(* t = clamp((inv - 0.3)/0.7, 0, 1), lumaLevels = max(4, 192 -             *)
(* round(t*188)), chromaLevels = max(2, 64 - round(t*62)),                 *)
(* subsampleFactor = 2 + round(t*6) and dithering when t < 0.5.            *)
(***************************************************************************)
ParamsKnown == PngName(output) /\ Called("tierParams")

C5_RoundedFormulas ==
    ParamsKnown =>
        IF FGe(quality, F0_7)
        THEN LET t == FDiv(FSub(FOne, quality), F0_3) IN
             /\ params.lumaLevels = 256 - FRoundInt(FMul(t, FromInt(64)))
             /\ params.chromaLevels = 256 - FRoundInt(FMul(t, FromInt(192)))
             /\ params.subsampleFactor = 2
             /\ params.useDithering
        ELSE LET t == FClamp(FDiv(FSub(FSub(FOne, quality), F0_3), F0_7),
                             FZero, FOne) IN
             /\ params.lumaLevels = Max(4, 192 - FRoundInt(FMul(t, FromInt(188))))
             /\ params.chromaLevels = Max(2, 64 - FRoundInt(FMul(t, FromInt(62))))
             /\ params.subsampleFactor = 2 + FRoundInt(FMul(t, FromInt(6)))
             /\ params.useDithering = FLt(t, F0_5)

(***************************************************************************)
(* C5 as amended: the same formulas with each round(...) replaced by the   *)
(* integer part (truncation toward zero) of the single-precision product:  *)
(* k is the integer part of x when k <= x < k + 1.  Quality 0 gives        *)
(* lumaLevels 4, chromaLevels 2, subsampleFactor 8 and no dithering.       *)
(***************************************************************************)
IntPartIs(k, x) == FLe(FromInt(k), x) /\ FLt(x, FromInt(k + 1))

C5_TruncatedFormulas ==
    ParamsKnown =>
        /\ IF FGe(quality, F0_7)
           THEN LET t == FDiv(FSub(FOne, quality), F0_3) IN
                /\ IntPartIs(256 - params.lumaLevels, FMul(t, FromInt(64)))
                /\ IntPartIs(256 - params.chromaLevels, FMul(t, FromInt(192)))
                /\ params.subsampleFactor = 2
                /\ params.useDithering
           ELSE LET t == FClamp(FDiv(FSub(FSub(FOne, quality), F0_3), F0_7),
                                FZero, FOne) IN
                /\ IF params.lumaLevels > 4
                   THEN IntPartIs(192 - params.lumaLevels, FMul(t, FromInt(188)))
                   ELSE /\ params.lumaLevels = 4
                        /\ FLe(FromInt(188), FMul(t, FromInt(188)))
                /\ IF params.chromaLevels > 2
                   THEN IntPartIs(64 - params.chromaLevels, FMul(t, FromInt(62)))
                   ELSE /\ params.chromaLevels = 2
                        /\ FLe(FromInt(62), FMul(t, FromInt(62)))
                /\ IntPartIs(params.subsampleFactor - 2, FMul(t, FromInt(6)))
                /\ params.useDithering = FLt(t, F0_5)
        /\ quality.m = 0 =>
              /\ params.lumaLevels = 4 /\ params.chromaLevels = 2
              /\ params.subsampleFactor = 8 /\ ~params.useDithering

\* quality 0.8: t*64 = 42.67, so 214 luma levels and not 213
C5_Witness ==
    /\ ParamsKnown /\ pc = "finish"
    /\ quality = FromRatio(4, 5)
    /\ params.lumaLevels = 214

(***************************************************************************)
(* C6: on the PNG path the indexed encoder is chosen exactly when the      *)
(* whole finished buffer is non-empty and has at most 256 distinct colors. *)
(* Then the palette holds one entry with alpha 255 per distinct color, in  *)
(* ascending order of the packed color, the indices lie in 0..n-1 and      *)
(* the palette entry at indices[i] is the color of pixel i.  Otherwise no  *)
(* palette is built and the truecolor encoder is used.                     *)
(***************************************************************************)
DataColors == { data[i] : i \in 1..Len(data) }
PaletteColor(j) ==
    PackRGB(palette[4 * j + 1], palette[4 * j + 2], palette[4 * j + 3])
PngEncoded == PngName(output) /\ CalledAny({ "write_png8_indexed", "stbi_write_png" })

C6_IndexedIffFewColors ==
    PngEncoded =>
        LET n == Cardinality(DataColors) IN
        IF n >= 1 /\ n <= 256
        THEN /\ \A i \in Calls(EncoderOps) :
                   (\A j \in Calls(EncoderOps) : i <= j) =>
                       log[i].op = "write_png8_indexed"
             /\ \A i \in 1..Len(log) : log[i].op = "write_png8_indexed" => log[i].n = n
             /\ Len(palette) = 4 * n
             /\ \A j \in 0..(n - 1) : palette[4 * j + 4] = 255
             /\ { PaletteColor(j) : j \in 0..(n - 1) } = DataColors
             /\ \A j \in 0..(n - 2) : PaletteColor(j) < PaletteColor(j + 1)
             /\ Len(indices) = Len(data)
             /\ \A i \in 1..Len(data) :
                   /\ indices[i] \in 0..(n - 1)
                   /\ PaletteColor(indices[i]) = data[i]
        ELSE /\ ~Called("write_png8_indexed")
             /\ Called("stbi_write_png")
             /\ palette = << >> /\ indices = << >>

\* 256 colors met in descending order: the largest palette
C6_Witness ==
    /\ PngEncoded /\ pc = "finish"
    /\ Cardinality(DataColors) = 256
    /\ Len(palette) = 1024
    /\ data[1] > data[2]
    /\ indices[1] = 255

(***************************************************************************)
(* C7: a quality that is not finite or lies outside [0,1] is rejected      *)
(* before any decode attempt: main and compressImage both end in failure   *)
(* without calling the decoder, a pixel stage or an encoder.               *)
(***************************************************************************)
\* the float is a NaN, an infinity, negative, or above 1 = 2^23 * 2^-23
InvalidQuality(c) ==
    \/ c.k \in { "nan", "inf" }
    \/ c.m # 0 /\ c.neg
    \/ c.m # 0 /\ (c.e > -23 \/ (c.e = -23 /\ c.m > 8388608))

C7_InvalidQualityRejected ==
    InvalidQuality(quality) =>
        /\ log = << >>
        /\ pc \in { "main", "compressImage", "returned", "exit" }
        /\ outFile = "absent"
        /\ Terminated => RunFailed
        /\ pc = "returned" => ret = "false"
        /\ pc = "exit" => exitCode = 1

C7_Witness ==
    /\ entry = "direct" /\ quality = FNaN
    /\ Terminated /\ ret = "false" /\ log = << >>

(***************************************************************************)
(* C8 as stated: the JPEG encoder is called with                           *)
(* jpegQuality = clamp(50 + round(quality*45), 1, 100).                    *)
(***************************************************************************)
C8_RoundedJpegQuality ==
    \A i \in 1..Len(log) :
        log[i].op = "stbi_write_jpg" =>
            log[i].n = Clamp(50 + FRoundInt(FMul(quality, FromInt(45))), 1, 100)

(***************************************************************************)
(* C8 as amended: jpegQuality = clamp(50 + k, 1, 100) where k is the       *)
(* integer part (truncation) of the single-precision product quality*45,   *)
(* which makes it 50 + k, between 50 and 95.                               *)
(***************************************************************************)
C8_TruncatedJpegQuality ==
    \A i \in 1..Len(log) :
        log[i].op = "stbi_write_jpg" =>
            /\ log[i].n \in 50..95
            /\ IntPartIs(log[i].n - 50, FMul(quality, FromInt(45)))

\* quality 0.35: 15.75 is truncated to 15, not rounded to 16
C8_Witness ==
    /\ quality = FromRatio(7, 20)
    /\ \E i \in 1..Len(log) : log[i].op = "stbi_write_jpg" /\ log[i].n = 65

(***************************************************************************)
(* C9: the tier parameters of every quality in [0,1] are valid:            *)
(* 2 <= lumaLevels <= 256, 2 <= chromaLevels <= 256 and                    *)
(* 1 <= subsampleFactor <= 8.                                              *)
(***************************************************************************)
C9_ValidParams ==
    ParamsKnown =>
        /\ params.lumaLevels \in 2..256
        /\ params.chromaLevels \in 2..256
        /\ params.subsampleFactor \in 1..8

\* the extreme parameter set, at quality 0
C9_Witness ==
    /\ ParamsKnown /\ quality.m = 0
    /\ params.lumaLevels = 4 /\ params.chromaLevels = 2
    /\ params.subsampleFactor = 8

(***************************************************************************)
(* C10: every run terminates in exactly one of Encoded (success) and       *)
(* Failed; on the PNG path the stages follow one another in the order      *)
(* Loaded, ColorConverted, Filtered (blur, then subsample), Quantized      *)
(* (dither when enabled, quantize, then even rounding of the luma only     *)
(* when dithering is on), Reconstructed (rounded to the tier's multiple),  *)
(* and only then an encoder call; no stage is skipped, repeated or         *)
(* reordered.                                                              *)
(***************************************************************************)
StageNo(op) ==
    CASE op = "stbi_load" -> 1
      [] op = "fromRGB" -> 2
      [] op \in { "chromaBlur", "chromaSubsample" } -> 3
      [] op \in { "orderedDither", "quantize", "evenRoundY" } -> 4
      [] op = "toRGBRounded" -> 5
      [] op \in EncoderOps -> 6
      [] OTHER -> 0

\* the positions of the log that belong to a stage
StageCalls == { i \in 1..Len(log) : StageNo(log[i].op) > 0 }
Pos(op) == CHOOSE i \in 1..Len(log) : log[i].op = op

C10_StageOrder ==
    PngName(output) =>
        \* stages never go back, and none is entered before the one before it
        /\ \A i, j \in StageCalls :
              i < j => StageNo(log[i].op) <= StageNo(log[j].op)
        /\ \A j \in StageCalls :
              StageNo(log[j].op) > 1 =>
                  \E i \in StageCalls :
                      i < j /\ StageNo(log[i].op) = StageNo(log[j].op) - 1
        \* no pixel operation is repeated
        /\ \A i, j \in StageCalls :
              (log[i].op = log[j].op /\ log[i].op \in PixelOps) => i = j
        \* inside Filtered: blur, then subsample; subsample always runs
        /\ (Called("chromaBlur") /\ Called("chromaSubsample")) =>
              Pos("chromaBlur") < Pos("chromaSubsample")
        /\ Called("quantize") => Called("chromaSubsample")
        \* inside Quantized: dither, quantize, even rounding, tied to dithering
        /\ Called("orderedDither") => params.useDithering
        /\ Called("quantize") =>
              (Called("orderedDither") <=> params.useDithering)
        /\ (Called("orderedDither") /\ Called("quantize")) =>
              Pos("orderedDither") < Pos("quantize")
        /\ Called("evenRoundY") =>
              /\ params.useDithering
              /\ Called("quantize") /\ Pos("quantize") < Pos("evenRoundY")
        /\ Called("toRGBRounded") =>
              /\ Called("evenRoundY") <=> params.useDithering
              /\ log[Pos("toRGBRounded")].n = (IF FGt(quality, F0_4) THEN 2 ELSE 4)
        \* the image is not reconstructed into RGB any other way
        /\ ~Called("toRGB")

C10_OneTerminalState ==
    /\ ~(RunSucceeded /\ RunFailed)
    /\ Terminated => (RunSucceeded \/ RunFailed)
    /\ RunSucceeded => Succeeded(EncoderOps)
    /\ (Terminated /\ entry = "main") => (exitCode = 0 <=> ret = "true")

\* the program positions in the order in which a run can visit them
PcOrder ==
    << "main", "compressImage", "detectExt", "load", "jpegDenoise", "jpegWrite",
       "fromRGB", "params", "blur", "subsample", "quantize", "evenRound",
       "toRGBRounded", "scan", "encodePng", "png8Failed", "unsupported",
       "finish", "returned", "exit" >>
PcRank(p) == CHOOSE i \in 1..Len(PcOrder) : PcOrder[i] = p

\* a run that has not ended can take a step, and every step moves forward
\* through finitely many positions: every run terminates
C10_Progress == PcRank(pc') > PcRank(pc)

C10_Lifecycle ==
    /\ [](C10_StageOrder /\ C10_OneTerminalState /\ (Terminated \/ ENABLED Next))
    /\ [][C10_Progress]_vars

\* a successful PNG run of tier 2 without dithering
C10_Witness ==
    /\ Terminated /\ PngName(output) /\ ret = "true"
    /\ ~params.useDithering
    /\ Called("quantize") /\ ~Called("evenRoundY")

=============================================================================
